---- MODULE Spec2Model ----
(***************************************************************************)
(* The DAXPY benchmark of src/main.c as a state machine.                   *)
(*                                                                         *)
(* The driving thread is main(): its position is pc, its locals are the    *)
(* variables named as in the source.  A parallel region (#pragma omp       *)
(* parallel for) is a team of workers, each with a position wpc[w], a      *)
(* current index wi[w], the end wend[w] of the block or chunk it holds     *)
(* and a register wtmp[w].  One loop iteration of a worker is two steps    *)
(* (compute from the operands, then store), since the C statement          *)
(* y[i] = y[i] + x[i]*a is not atomic.  rand() is read-state then          *)
(* write-state, since the C library does not promise it to be atomic.      *)
(*                                                                         *)
(* Doubles hold the integers rand() returns; the value sets are small so   *)
(* that every product and sum is exact.  A millisecond or second value     *)
(* is a pair <<whole, frac>> with frac counted in 10^-6 units, which       *)
(* represents seconds*1000 + nanoseconds/1000000 exactly.                  *)
(*                                                                         *)
(* The heap is the number of blocks each of the two malloc calls has       *)
(* handed out and free has not yet taken back.                             *)
(*                                                                         *)
(* Environment assumptions: malloc succeeds for every size that fits and   *)
(* returns NULL for the wrapped-around size of a negative n; a parallel    *)
(* for with no schedule clause is scheduled statically (libgomp's          *)
(* default); num_threads(t) with t >= 1 gives a team of t.                 *)
(***************************************************************************)
EXTENDS Integers, Sequences, FiniteSets, TLC

\* ---------------------------------------------------------------- bounds
\* the largest team and the largest vector length the user asks for
MaxThreads == 2
MaxN == 2
\* the largest of the short vectors handed to the two kernels side by side
KMaxN == 3
\* the largest tv_sec handed to the timer arithmetic on its own
MaxSec == 2

\* ------------------------------------------------------ program constants
\* schedule(dynamic, 100)
CHUNK == 100
\* ts->tv_sec * 1000.0
MS_PER_SEC == 1000
\* ts->tv_nsec / 1000000.0
NS_PER_MS == 1000000
\* CLOCKS_PER_SEC of <time.h> (POSIX: one million)
CLOCKS_PER_SEC == 1000000
\* the sentinel of while (n != -1)
SENTINEL == -1

\* ------------------------------------------------------------ value sets
Workers == 0 .. (MaxThreads - 1)
\* the values rand() returns (the generator is the C library's; it is
\* modelled as a counter over these values)
RandValues == {0, 1}
RandMod == Cardinality(RandValues)
Seeds == RandValues
\* what the user can type at the three prompts
ModeInputs == {0, 1, 2}
ThreadInputs == 0 .. MaxThreads
LengthInputs == (-2) .. MaxN
\* what clock_gettime shows during a session: <<tv_sec, tv_nsec>>, the last
\* nanosecond of a second and the first of the next
Times == {<<0, 999999999>>, <<1, 0>>}
\* what clock() shows, in ticks counted from the first sample of a trial
\* (only end - begin is ever used)
CpuOrigin == 0
CpuTimes == {0, 1}
\* tv_nsec samples of [0, 10^9) for the timer arithmetic on its own
NsecSamples == {0, 1, 999999, 1000000, 999999999}
TimerTimes == {<<s, ns>> : s \in 0 .. MaxSec, ns \in NsecSamples}
\* an element of a malloc'ed, not yet written vector
Undef == -1
NoTime == <<-1, -1>>
NoDouble == <<-1, -1>>

Min(p, q) == IF p <= q THEN p ELSE q
Range(len) == 0 .. (len - 1)

VARIABLES
  pc, dyn_or_stc, thread_count, n, a, x, y, xp, yp,
  begin, end, start, finish, time_spent, wall_time,
  rstate, stdin_ok, mono, out, exit_status, trace, reads,
  region, rlen, rthreads, team, wpc, wi, wend, wtmp, next_chunk, wlog,
  y0, kres, heap

drv == <<pc, dyn_or_stc, thread_count, n, a, xp, yp,
         begin, end, start, finish, time_spent, wall_time,
         stdin_ok, mono, out, exit_status, trace, reads>>
teamv == <<region, rlen, rthreads, team, wpc, wi, wend, wtmp, next_chunk, wlog>>
vars == <<drv, teamv, x, y, rstate, y0, kres, heap>>

\* ------------------------------------------------------- pure functions

\* mutant of ts_to_ms: nanoseconds divided by 1000.0
ts_to_ms_Micro(ts) ==
  <<ts[1] * MS_PER_SEC + (ts[2] \div 1000), (ts[2] % 1000) * 1000>>

\* ts_to_ms: seconds * 1000.0 + nanoseconds / 1000000.0, as <<whole ms, 10^-6 ms>>
ts_to_ms(ts) ==
  <<ts[1] * MS_PER_SEC + (ts[2] \div NS_PER_MS), ts[2] % NS_PER_MS>>

\* p - q of two values <<whole, frac>> whose frac counts 1/unit
DSub(p, q, unit) ==
  IF p[2] >= q[2] THEN <<p[1] - q[1], p[2] - q[2]>>
  ELSE <<p[1] - q[1] - 1, p[2] - q[2] + unit>>

\* (double) ticks / CLOCKS_PER_SEC, as <<whole s, 10^-6 s>>
ClockSeconds(ticks) == <<ticks \div CLOCKS_PER_SEC, ticks % CLOCKS_PER_SEC>>

\* a value <<whole, frac>> with 0 <= frac is negative exactly when whole < 0
DNonNeg(d) == d[1] >= 0

TimeLeq(s, t) == s[1] < t[1] \/ (s[1] = t[1] /\ s[2] <= t[2])

\* rand(): the generator's next state, and the value returned for a state
RandNext(s) == (s + 1) % RandMod
RandValue(s) == s

\* y[i] + x[i]*a
Daxpy(yi, xi, aa) == yi + xi * aa

\* the sequential algorithm on whole vectors
SeqDaxpy(xx, yy, aa) == [i \in DOMAIN yy |-> Daxpy(yy[i], xx[i], aa)]

\* mutants of the static block: the remainder's offset forgotten; the end
\* one too far
StaticLo_NoRemainder(len, k, w) ==
  LET cnt == IF len > 0 THEN len ELSE 0
      q == cnt \div k
  IN q * w
StaticHi_OffByOne(len, k, w) ==
  LET cnt == IF len > 0 THEN len ELSE 0
      q == cnt \div k
      r == cnt % k
  IN (IF w < r THEN (q + 1) * w + q + 1 ELSE q * w + r + q) + 1
\* mutant of the static block's end: every block has len / k iterations
StaticHi_EqualBlocks(len, k, w) ==
  LET cnt == IF len > 0 THEN len ELSE 0
      q == cnt \div k
      r == cnt % k
  IN IF w < r THEN (q + 1) * w + q ELSE q * w + r + q

\* schedule(static): the block [lo, hi) of worker w in a team of k over
\* len iterations; the first len % k workers get one more iteration
StaticLo(len, k, w) ==
  LET cnt == IF len > 0 THEN len ELSE 0
      q == cnt \div k
      r == cnt % k
  IN IF w < r THEN (q + 1) * w ELSE q * w + r
StaticHi(len, k, w) ==
  LET cnt == IF len > 0 THEN len ELSE 0
      q == cnt \div k
      r == cnt % k
  IN IF w < r THEN (q + 1) * w + q + 1 ELSE q * w + r + q

\* mutant of the chunk's end: one index too far
ChunkHi_Overlap(lo, len) == Min(lo + CHUNK + 1, len)

\* schedule(dynamic, 100): the end of the chunk that starts at lo
ChunkHi(lo, len) == Min(lo + CHUNK, len)

\* the team num_threads(t) gives: t for t >= 1; for t <= 0 the clause is
\* non-conforming and the runtime may pick any team or abort (0)
TeamSizes(t) == IF t >= 1 THEN {t} ELSE 0 .. MaxThreads

\* the size malloc is asked for fits exactly when n >= 0
MallocResult(len) == IF len >= 0 THEN "live" ELSE "null"
FreshVector(len) == [i \in Range(len) |-> Undef]

\* the heap: how many blocks obtained by the malloc call for x and by the
\* malloc call for y have not been handed to free
Blocks == {"x", "y"}
NoBlocks == [b \in Blocks |-> 0]
BothBlocks == [b \in Blocks |-> 1]
\* malloc adds a block unless it returns NULL; free(NULL) does nothing
Allocated(h, b, len) ==
  IF MallocResult(len) = "live" THEN [h EXCEPT ![b] = @ + 1] ELSE h
Released(h, b, p) ==
  IF p = "live" THEN [h EXCEPT ![b] = @ - 1] ELSE h

\* the body a worker of a region runs per index
BodyEntry(r) == IF r \in {"init_x", "init_y"} THEN "rand_read" ELSE "load"

\* ------------------------------------------------------ parallel regions

AllOff == [w \in Workers |-> "off"]
Zeros == [w \in Workers |-> 0]

\* mutant of the loop entry: the body is entered before the bound is tested
StartPc_DoWhile(r, len, k, w) ==
  IF w >= k THEN "off"
  ELSE IF r = "dynamic" THEN "claim"
  ELSE BodyEntry(r)

\* where a worker of a team of k starts in region r over len iterations:
\* schedule(static) gives it its one block at loop entry, schedule(dynamic)
\* sends it to the shared counter
StartPc(r, len, k, w) ==
  IF w >= k THEN "off"
  ELSE IF r = "dynamic" THEN "claim"
  ELSE IF StaticLo(len, k, w) < StaticHi(len, k, w) THEN BodyEntry(r)
  ELSE "done"

\* entering a parallel for of region r over len iterations with a team of k
Fork(r, len, t, k) ==
  /\ region' = r
  /\ rlen' = len
  /\ rthreads' = t
  /\ team' = k
  /\ wpc' = [w \in Workers |-> StartPc(r, len, k, w)]
  /\ wi' = [w \in Workers |->
              IF w < k /\ r # "dynamic" THEN StaticLo(len, k, w) ELSE 0]
  /\ wend' = [w \in Workers |->
                IF w < k /\ r # "dynamic" THEN StaticHi(len, k, w) ELSE 0]
  /\ wtmp' = Zeros
  /\ next_chunk' = 0
  /\ wlog' = [i \in Range(len) |-> <<>>]
\* mutant of the barrier: the region ends as soon as one worker is done
AllDone_Any == \E w \in Workers : w < team /\ wpc[w] = "done"

\* the implicit barrier that ends a parallel for
AllDone == \A w \in Workers : w < team => wpc[w] = "done"

Join(r) ==
  /\ region = r
  /\ AllDone
  /\ region' = "none"
  /\ team' = 0
  /\ wpc' = AllOff
  /\ wi' = Zeros
  /\ wend' = Zeros
  /\ wtmp' = Zeros
  /\ next_chunk' = 0
  /\ wlog' = <<>>
  /\ UNCHANGED <<rlen, rthreads>>

\* schedule(dynamic, 100): a worker takes the next chunk off the shared
\* counter in one atomic step, or leaves the loop when none is left
WClaim(w) ==
  /\ wpc[w] = "claim"
  /\ IF next_chunk < rlen
     THEN /\ next_chunk' = next_chunk + CHUNK
          /\ wi' = [wi EXCEPT ![w] = next_chunk]
          /\ wend' = [wend EXCEPT ![w] = ChunkHi(next_chunk, rlen)]
          /\ wpc' = [wpc EXCEPT ![w] = "load"]
     ELSE /\ wpc' = [wpc EXCEPT ![w] = "done"]
          /\ UNCHANGED <<next_chunk, wi, wend>>
  /\ UNCHANGED <<drv, region, rlen, rthreads, team, wtmp, wlog,
                 x, y, rstate, y0, kres, heap>>
\* mutant of the end of a chunk: the worker leaves the loop instead of
\* going back to the shared counter
AfterIteration_OneChunk(w, i) ==
  IF i + 1 < wend[w] THEN BodyEntry(region) ELSE "done"

\* where a worker goes after the iteration at index i
AfterIteration(w, i) ==
  IF i + 1 < wend[w] THEN BodyEntry(region)
  ELSE IF region = "dynamic" THEN "claim" ELSE "done"
\* mutant of the compute step: the worker multiplies by a scalar of its own
WLoad_OtherScalar(w) ==
  /\ wpc[w] = "load"
  /\ IF wi[w] \in DOMAIN y /\ wi[w] \in DOMAIN x
     THEN /\ wtmp' = [wtmp EXCEPT ![w] = Daxpy(y[wi[w]], x[wi[w]], a + w + 1)]
          /\ wpc' = [wpc EXCEPT ![w] = "store"]
          /\ UNCHANGED pc
     ELSE /\ pc' = "segv"
          /\ UNCHANGED <<wtmp, wpc>>
  /\ UNCHANGED <<dyn_or_stc, thread_count, n, a, xp, yp,
                 begin, end, start, finish, time_spent, wall_time,
                 stdin_ok, mono, out, exit_status, trace, reads,
                 region, rlen, rthreads, team, wi, wend, next_chunk, wlog,
                 x, y, rstate, y0, kres, heap>>

\* y[i] + x[i]*a is computed from the operands ...
WLoad(w) ==
  /\ wpc[w] = "load"
  /\ IF wi[w] \in DOMAIN y /\ wi[w] \in DOMAIN x
     THEN /\ wtmp' = [wtmp EXCEPT ![w] = Daxpy(y[wi[w]], x[wi[w]], a)]
          /\ wpc' = [wpc EXCEPT ![w] = "store"]
          /\ UNCHANGED pc
     ELSE /\ pc' = "segv"
          /\ UNCHANGED <<wtmp, wpc>>
  /\ UNCHANGED <<dyn_or_stc, thread_count, n, a, xp, yp,
                 begin, end, start, finish, time_spent, wall_time,
                 stdin_ok, mono, out, exit_status, trace, reads,
                 region, rlen, rthreads, team, wi, wend, next_chunk, wlog,
                 x, y, rstate, y0, kres, heap>>

\* mutant of the store: the result goes into x[i]
WStore_IntoX(w) ==
  /\ wpc[w] = "store"
  /\ x' = [x EXCEPT ![wi[w]] = wtmp[w]]
  /\ wlog' = [wlog EXCEPT ![wi[w]] = Append(@, w)]
  /\ wi' = [wi EXCEPT ![w] = @ + 1]
  /\ wtmp' = [wtmp EXCEPT ![w] = 0]
  /\ wpc' = [wpc EXCEPT ![w] = AfterIteration(w, wi[w])]
  /\ UNCHANGED <<drv, region, rlen, rthreads, team, wend, next_chunk,
                 y, rstate, y0, kres, heap>>

\* ... and then stored into y[i]
WStore(w) ==
  /\ wpc[w] = "store"
  /\ y' = [y EXCEPT ![wi[w]] = wtmp[w]]
  /\ wlog' = [wlog EXCEPT ![wi[w]] = Append(@, w)]
  /\ wi' = [wi EXCEPT ![w] = @ + 1]
  /\ wtmp' = [wtmp EXCEPT ![w] = 0]
  /\ wpc' = [wpc EXCEPT ![w] = AfterIteration(w, wi[w])]
  /\ UNCHANGED <<drv, region, rlen, rthreads, team, wend, next_chunk,
                 x, rstate, y0, kres, heap>>

\* arr[i] = rand(): rand() reads the generator's state ...
WRandRead(w) ==
  /\ wpc[w] = "rand_read"
  /\ wtmp' = [wtmp EXCEPT ![w] = rstate]
  /\ wpc' = [wpc EXCEPT ![w] = "rand_write"]
  /\ UNCHANGED <<drv, region, rlen, rthreads, team, wi, wend, next_chunk, wlog,
                 x, y, rstate, y0, kres, heap>>
\* mutant of arr[i] = rand(): the value always goes into x
WRandWrite_IntoX(w) ==
  /\ wpc[w] = "rand_write"
  /\ rstate' = RandNext(wtmp[w])
  /\ x' = [x EXCEPT ![wi[w]] = RandValue(RandNext(wtmp[w]))]
  /\ UNCHANGED y
  /\ wlog' = [wlog EXCEPT ![wi[w]] = Append(@, w)]
  /\ wi' = [wi EXCEPT ![w] = @ + 1]
  /\ wtmp' = [wtmp EXCEPT ![w] = 0]
  /\ wpc' = [wpc EXCEPT ![w] = AfterIteration(w, wi[w])]
  /\ UNCHANGED <<drv, region, rlen, rthreads, team, wend, next_chunk,
                 y0, kres, heap>>

\* ... then writes the advanced state back, and the value it returns is
\* stored into arr[i]
WRandWrite(w) ==
  /\ wpc[w] = "rand_write"
  /\ rstate' = RandNext(wtmp[w])
  /\ IF region = "init_x"
     THEN /\ x' = [x EXCEPT ![wi[w]] = RandValue(RandNext(wtmp[w]))]
          /\ UNCHANGED y
     ELSE /\ y' = [y EXCEPT ![wi[w]] = RandValue(RandNext(wtmp[w]))]
          /\ UNCHANGED x
  /\ wlog' = [wlog EXCEPT ![wi[w]] = Append(@, w)]
  /\ wi' = [wi EXCEPT ![w] = @ + 1]
  /\ wtmp' = [wtmp EXCEPT ![w] = 0]
  /\ wpc' = [wpc EXCEPT ![w] = AfterIteration(w, wi[w])]
  /\ UNCHANGED <<drv, region, rlen, rthreads, team, wend, next_chunk,
                 y0, kres, heap>>

\* ------------------------------------------------------------- main()

NoReads == [mode |-> <<>>, threads |-> <<>>, len |-> <<>>]

\* the variables declared inside the if-block, before they are set and
\* after the block is left
ScopeClear ==
  /\ a' = Undef
  /\ x' = <<>>
  /\ y' = <<>>
  /\ xp' = "none"
  /\ yp' = "none"
  /\ begin' = Undef
  /\ end' = Undef
  /\ time_spent' = NoDouble
  /\ wall_time' = NoDouble
  /\ y0' = <<>>

\* srand(time(NULL))
Srand ==
  /\ pc = "srand"
  /\ \E s \in Seeds : rstate' = s
  /\ pc' = "while"
  /\ UNCHANGED <<dyn_or_stc, thread_count, n, a, xp, yp,
                 begin, end, start, finish, time_spent, wall_time,
                 stdin_ok, mono, out, exit_status, trace, reads,
                 teamv, x, y, y0, kres, heap>>

\* while (n != -1) { printf("Run in static or dynamic mode? ...
WhileTest ==
  /\ pc = "while"
  /\ IF n # SENTINEL
     THEN /\ pc' = "scanf_mode"
          /\ out' = <<"prompt_mode">>
          /\ trace' = <<>>
          /\ reads' = NoReads
     ELSE /\ pc' = "goodbye"
          /\ UNCHANGED <<out, trace, reads>>
  /\ UNCHANGED <<dyn_or_stc, thread_count, n, a, xp, yp,
                 begin, end, start, finish, time_spent, wall_time,
                 stdin_ok, mono, exit_status,
                 teamv, x, y, rstate, y0, kres, heap>>

\* scanf("%d", &dyn_or_stc): a number is converted and stored, or the
\* input does not convert (or has ended) and the variable is left as it is;
\* input that did not convert stays unread, so every later scanf fails too
ScanfMode ==
  /\ pc = "scanf_mode"
  /\ \/ /\ stdin_ok
        /\ \E v \in ModeInputs :
             /\ dyn_or_stc' = v
             /\ reads' = [reads EXCEPT !.mode = <<v>>]
        /\ UNCHANGED stdin_ok
     \/ /\ stdin_ok' = FALSE
        /\ UNCHANGED <<dyn_or_stc, reads>>
  /\ pc' = "scanf_threads"
  /\ out' = Append(out, "prompt_threads")
  /\ trace' = Append(trace, "read_mode")
  /\ UNCHANGED <<thread_count, n, a, xp, yp,
                 begin, end, start, finish, time_spent, wall_time,
                 mono, exit_status,
                 teamv, x, y, rstate, y0, kres, heap>>

\* scanf("%d", &thread_count)
ScanfThreads ==
  /\ pc = "scanf_threads"
  /\ \/ /\ stdin_ok
        /\ \E v \in ThreadInputs :
             /\ thread_count' = v
             /\ reads' = [reads EXCEPT !.threads = <<v>>]
        /\ UNCHANGED stdin_ok
     \/ /\ stdin_ok' = FALSE
        /\ UNCHANGED <<thread_count, reads>>
  /\ pc' = "scanf_n"
  /\ out' = Append(out, "prompt_n")
  /\ trace' = Append(trace, "read_threads")
  /\ UNCHANGED <<dyn_or_stc, n, a, xp, yp,
                 begin, end, start, finish, time_spent, wall_time,
                 mono, exit_status,
                 teamv, x, y, rstate, y0, kres, heap>>

\* scanf("%d", &n)
ScanfN ==
  /\ pc = "scanf_n"
  /\ \/ /\ stdin_ok
        /\ \E v \in LengthInputs :
             /\ n' = v
             /\ reads' = [reads EXCEPT !.len = <<v>>]
        /\ UNCHANGED stdin_ok
     \/ /\ stdin_ok' = FALSE
        /\ UNCHANGED <<n, reads>>
  /\ pc' = "test_n"
  /\ trace' = Append(trace, "read_n")
  /\ UNCHANGED <<dyn_or_stc, thread_count, a, xp, yp,
                 begin, end, start, finish, time_spent, wall_time,
                 mono, out, exit_status,
                 teamv, x, y, rstate, y0, kres, heap>>

\* mutant of the sentinel test: the session ends on 0
TestN_Zero ==
  /\ pc = "test_n"
  /\ pc' = IF n # 0 THEN "scalar" ELSE "while"
  /\ UNCHANGED <<dyn_or_stc, thread_count, n, a, xp, yp,
                 begin, end, start, finish, time_spent, wall_time,
                 stdin_ok, mono, out, exit_status, trace, reads,
                 teamv, x, y, rstate, y0, kres, heap>>

\* if (n != -1) {
TestN ==
  /\ pc = "test_n"
  /\ pc' = IF n # SENTINEL THEN "scalar" ELSE "while"
  /\ UNCHANGED <<dyn_or_stc, thread_count, n, a, xp, yp,
                 begin, end, start, finish, time_spent, wall_time,
                 stdin_ok, mono, out, exit_status, trace, reads,
                 teamv, x, y, rstate, y0, kres, heap>>

\* double a = initialize_scalar();
InitializeScalar ==
  /\ pc = "scalar"
  /\ rstate' = RandNext(rstate)
  /\ a' = RandValue(RandNext(rstate))
  /\ pc' = "malloc_x"
  /\ trace' = Append(trace, "scalar")
  /\ UNCHANGED <<dyn_or_stc, thread_count, n, xp, yp,
                 begin, end, start, finish, time_spent, wall_time,
                 stdin_ok, mono, out, exit_status, reads,
                 teamv, x, y, y0, kres, heap>>

\* double* x = (double*) malloc(sizeof(double) * n);
MallocX ==
  /\ pc = "malloc_x"
  /\ xp' = MallocResult(n)
  /\ x' = FreshVector(n)
  /\ heap' = Allocated(heap, "x", n)
  /\ pc' = "malloc_y"
  /\ trace' = Append(trace, "malloc_x")
  /\ UNCHANGED <<dyn_or_stc, thread_count, n, a, yp,
                 begin, end, start, finish, time_spent, wall_time,
                 stdin_ok, mono, out, exit_status, reads,
                 teamv, y, rstate, y0, kres>>

\* double* y = (double*) malloc(sizeof(double) * n);
MallocY ==
  /\ pc = "malloc_y"
  /\ yp' = MallocResult(n)
  /\ y' = FreshVector(n)
  /\ heap' = Allocated(heap, "y", n)
  /\ pc' = "init_x"
  /\ trace' = Append(trace, "malloc_y")
  /\ UNCHANGED <<dyn_or_stc, thread_count, n, a, xp,
                 begin, end, start, finish, time_spent, wall_time,
                 stdin_ok, mono, out, exit_status, reads,
                 teamv, x, rstate, y0, kres>>

\* a call that opens a parallel region: the team is formed, or the runtime
\* gives up on a non-conforming num_threads
CallRegion(r, joinpc, event) ==
  \E k \in TeamSizes(thread_count) :
    IF k = 0
    THEN /\ pc' = "aborted"
         /\ UNCHANGED <<trace, teamv>>
    ELSE /\ Fork(r, n, thread_count, k)
         /\ pc' = joinpc
         /\ trace' = Append(trace, event)

\* initialize_array(x, n, thread_count);
CallInitX ==
  /\ pc = "init_x"
  /\ CallRegion("init_x", "join_x", "init_x")
  /\ UNCHANGED <<dyn_or_stc, thread_count, n, a, xp, yp,
                 begin, end, start, finish, time_spent, wall_time,
                 stdin_ok, mono, out, exit_status, reads,
                 x, y, rstate, y0, kres, heap>>
\* mutant of the return from the first initialization: the timer is started
\* at once
JoinInitX_StartsTimer ==
  /\ pc = "join_x"
  /\ Join("init_x")
  /\ pc' = "clock_begin"
  /\ trace' = Append(trace, "init_x_done")
  /\ UNCHANGED <<dyn_or_stc, thread_count, n, a, xp, yp,
                 begin, end, start, finish, time_spent, wall_time,
                 stdin_ok, mono, out, exit_status, reads,
                 x, y, rstate, y0, kres, heap>>


JoinInitX ==
  /\ pc = "join_x"
  /\ Join("init_x")
  /\ pc' = "init_y"
  /\ trace' = Append(trace, "init_x_done")
  /\ UNCHANGED <<dyn_or_stc, thread_count, n, a, xp, yp,
                 begin, end, start, finish, time_spent, wall_time,
                 stdin_ok, mono, out, exit_status, reads,
                 x, y, rstate, y0, kres, heap>>

\* initialize_array(y, n, thread_count);
CallInitY ==
  /\ pc = "init_y"
  /\ CallRegion("init_y", "join_y", "init_y")
  /\ UNCHANGED <<dyn_or_stc, thread_count, n, a, xp, yp,
                 begin, end, start, finish, time_spent, wall_time,
                 stdin_ok, mono, out, exit_status, reads,
                 x, y, rstate, y0, kres, heap>>

\* mutant of the return from the second initialization: the timer is not
\* started
JoinInitY_NoTimer ==
  /\ pc = "join_y"
  /\ Join("init_y")
  /\ pc' = "kernel"
  /\ trace' = Append(trace, "init_y_done")
  /\ UNCHANGED <<dyn_or_stc, thread_count, n, a, xp, yp,
                 begin, end, start, finish, time_spent, wall_time,
                 stdin_ok, mono, out, exit_status, reads,
                 x, y, rstate, y0, kres, heap>>

JoinInitY ==
  /\ pc = "join_y"
  /\ Join("init_y")
  /\ pc' = "clock_begin"
  /\ trace' = Append(trace, "init_y_done")
  /\ UNCHANGED <<dyn_or_stc, thread_count, n, a, xp, yp,
                 begin, end, start, finish, time_spent, wall_time,
                 stdin_ok, mono, out, exit_status, reads,
                 x, y, rstate, y0, kres, heap>>

\* clock_t begin = clock();
ClockBegin ==
  /\ pc = "clock_begin"
  /\ begin' = CpuOrigin
  /\ pc' = "gettime_start"
  /\ trace' = Append(trace, "clock_begin")
  /\ UNCHANGED <<dyn_or_stc, thread_count, n, a, xp, yp,
                 end, start, finish, time_spent, wall_time,
                 stdin_ok, mono, out, exit_status, reads,
                 teamv, x, y, rstate, y0, kres, heap>>

\* clock_gettime(CLOCK, &start);  the monotonic clock does not run backwards
GettimeStart ==
  /\ pc = "gettime_start"
  /\ \E t \in Times : TimeLeq(mono, t) /\ mono' = t /\ start' = t
  /\ pc' = "kernel"
  /\ trace' = Append(trace, "gettime_start")
  /\ UNCHANGED <<dyn_or_stc, thread_count, n, a, xp, yp,
                 begin, end, finish, time_spent, wall_time,
                 stdin_ok, out, exit_status, reads,
                 teamv, x, y, rstate, y0, kres, heap>>

\* mutant of the selection: only mode 1 is dynamic
KernelVariant_OnlyOne(mode) == IF mode = 1 THEN "dynamic" ELSE "static"

\* if (dyn_or_stc == 0) calculate_daxpy(...) else calculate_daxpy_dynamic(...)
KernelVariant(mode) == IF mode = 0 THEN "static" ELSE "dynamic"

CallKernel ==
  /\ pc = "kernel"
  /\ CallRegion(KernelVariant(dyn_or_stc), "join_kernel",
                IF KernelVariant(dyn_or_stc) = "static"
                THEN "kernel_static" ELSE "kernel_dynamic")
  /\ y0' = y
  /\ UNCHANGED <<dyn_or_stc, thread_count, n, a, xp, yp,
                 begin, end, start, finish, time_spent, wall_time,
                 stdin_ok, mono, out, exit_status, reads,
                 x, y, rstate, kres, heap>>

JoinKernel ==
  /\ pc = "join_kernel"
  /\ Join(region)
  /\ pc' = "clock_end"
  /\ trace' = Append(trace, "kernel_done")
  /\ UNCHANGED <<dyn_or_stc, thread_count, n, a, xp, yp,
                 begin, end, start, finish, time_spent, wall_time,
                 stdin_ok, mono, out, exit_status, reads,
                 x, y, rstate, y0, kres, heap>>

\* clock_t end = clock();  processor time does not run backwards
ClockEnd ==
  /\ pc = "clock_end"
  /\ \E c \in CpuTimes : c >= begin /\ end' = c
  /\ pc' = "gettime_finish"
  /\ trace' = Append(trace, "clock_end")
  /\ UNCHANGED <<dyn_or_stc, thread_count, n, a, xp, yp,
                 begin, start, finish, time_spent, wall_time,
                 stdin_ok, mono, out, exit_status, reads,
                 teamv, x, y, rstate, y0, kres, heap>>

\* clock_gettime(CLOCK, &finish);
GettimeFinish ==
  /\ pc = "gettime_finish"
  /\ \E t \in Times : TimeLeq(mono, t) /\ mono' = t /\ finish' = t
  /\ pc' = "compute"
  /\ trace' = Append(trace, "gettime_finish")
  /\ UNCHANGED <<dyn_or_stc, thread_count, n, a, xp, yp,
                 begin, end, start, time_spent, wall_time,
                 stdin_ok, out, exit_status, reads,
                 teamv, x, y, rstate, y0, kres, heap>>

\* wall_time = ts_to_ms(&finish) - ts_to_ms(&start)
WallTime(st, fi) == DSub(ts_to_ms(fi), ts_to_ms(st), NS_PER_MS)

\* time_spent = (double) (end - begin) / CLOCKS_PER_SEC; wall_time = ...
ComputeTimes ==
  /\ pc = "compute"
  /\ time_spent' = ClockSeconds(end - begin)
  /\ wall_time' = WallTime(start, finish)
  /\ pc' = "print"
  /\ UNCHANGED <<dyn_or_stc, thread_count, n, a, xp, yp,
                 begin, end, start, finish,
                 stdin_ok, mono, out, exit_status, trace, reads,
                 teamv, x, y, rstate, y0, kres, heap>>

\* print_daxpy(y, n, time_spent, wall_time);
PrintDaxpy ==
  /\ pc = "print"
  /\ out' = out \o <<"processor_time", "wall_time", "blank">>
  /\ pc' = "free_x"
  /\ trace' = Append(trace, "report")
  /\ UNCHANGED <<dyn_or_stc, thread_count, n, a, xp, yp,
                 begin, end, start, finish, time_spent, wall_time,
                 stdin_ok, mono, exit_status, reads,
                 teamv, x, y, rstate, y0, kres, heap>>

\* free(x);
FreeX ==
  /\ pc = "free_x"
  /\ xp' = "freed"
  /\ heap' = Released(heap, "x", xp)
  /\ pc' = "free_y"
  /\ trace' = Append(trace, "free_x")
  /\ UNCHANGED <<dyn_or_stc, thread_count, n, a, yp,
                 begin, end, start, finish, time_spent, wall_time,
                 stdin_ok, mono, out, exit_status, reads,
                 teamv, x, y, rstate, y0, kres>>
\* mutant of free(y): the block is not handed back
FreeY_Leak ==
  /\ pc = "free_y"
  /\ ScopeClear
  /\ pc' = "while"
  /\ trace' = Append(trace, "free_y")
  /\ UNCHANGED <<dyn_or_stc, thread_count, n,
                 start, finish,
                 stdin_ok, mono, out, exit_status, reads,
                 teamv, rstate, kres, heap>>

\* free(y); } and the block's variables go out of scope
FreeY ==
  /\ pc = "free_y"
  /\ ScopeClear
  /\ heap' = Released(heap, "y", yp)
  /\ pc' = "while"
  /\ trace' = Append(trace, "free_y")
  /\ UNCHANGED <<dyn_or_stc, thread_count, n,
                 start, finish,
                 stdin_ok, mono, out, exit_status, reads,
                 teamv, rstate, kres>>

\* printf("Goodbye!\n");
Goodbye ==
  /\ pc = "goodbye"
  /\ out' = Append(out, "goodbye")
  /\ pc' = "return"
  /\ UNCHANGED <<dyn_or_stc, thread_count, n, a, xp, yp,
                 begin, end, start, finish, time_spent, wall_time,
                 stdin_ok, mono, exit_status, trace, reads,
                 teamv, x, y, rstate, y0, kres, heap>>
\* mutant of return 0: control goes back to the loop
Return_Restart ==
  /\ pc = "return"
  /\ exit_status' = 0
  /\ pc' = "while"
  /\ UNCHANGED <<dyn_or_stc, thread_count, n, a, xp, yp,
                 begin, end, start, finish, time_spent, wall_time,
                 stdin_ok, mono, out, trace, reads,
                 teamv, x, y, rstate, y0, kres, heap>>

\* return 0;
Return ==
  /\ pc = "return"
  /\ exit_status' = 0
  /\ pc' = "exit"
  /\ UNCHANGED <<dyn_or_stc, thread_count, n, a, xp, yp,
                 begin, end, start, finish, time_spent, wall_time,
                 stdin_ok, mono, out, trace, reads,
                 teamv, x, y, rstate, y0, kres, heap>>

\* ------------------------------------------------------- specification

\* main() at its first statement: n = 1, thread_count = 1, dyn_or_stc,
\* start and finish not initialized
Init ==
  /\ pc = "srand"
  /\ dyn_or_stc \in ModeInputs
  /\ thread_count = 1
  /\ n = 1
  /\ a = Undef
  /\ x = <<>>
  /\ y = <<>>
  /\ xp = "none"
  /\ yp = "none"
  /\ begin = Undef
  /\ end = Undef
  /\ start = NoTime
  /\ finish = NoTime
  /\ time_spent = NoDouble
  /\ wall_time = NoDouble
  /\ rstate = 0
  /\ stdin_ok = TRUE
  /\ mono = <<0, 0>>
  /\ out = <<>>
  /\ exit_status = -1
  /\ trace = <<>>
  /\ reads = NoReads
  /\ region = "none"
  /\ rlen = 0
  /\ rthreads = 0
  /\ team = 0
  /\ wpc = AllOff
  /\ wi = Zeros
  /\ wend = Zeros
  /\ wtmp = Zeros
  /\ next_chunk = 0
  /\ wlog = <<>>
  /\ y0 = <<>>
  /\ kres = <<>>
  /\ heap = NoBlocks

Next ==
  \/ Srand
  \/ WhileTest
  \/ ScanfMode
  \/ ScanfThreads
  \/ ScanfN
  \/ TestN
  \/ InitializeScalar
  \/ MallocX
  \/ MallocY
  \/ CallInitX
  \/ JoinInitX
  \/ CallInitY
  \/ JoinInitY
  \/ ClockBegin
  \/ GettimeStart
  \/ CallKernel
  \/ JoinKernel
  \/ ClockEnd
  \/ GettimeFinish
  \/ ComputeTimes
  \/ PrintDaxpy
  \/ FreeX
  \/ FreeY
  \/ Goodbye
  \/ Return
  \/ \E w \in Workers : WClaim(w)
  \/ \E w \in Workers : WLoad(w)
  \/ \E w \in Workers : WStore(w)
  \/ \E w \in Workers : WRandRead(w)
  \/ \E w \in Workers : WRandWrite(w)

Spec == Init /\ [][Next]_vars

\* ------------------------------------------- the two kernels side by side

\* elements and scalars of the vectors handed to the kernels
KVals == {1, 2}
KScalars == {0, 1, 2}
\* lengths that take more than one chunk of the dynamic schedule
LongLengths == {CHUNK + 1, 2 * CHUNK + CHUNK \div 2}
LongTeams == {2}
LongX(len) == [i \in Range(len) |-> 1 + (i % 2)]
LongY(len) == [i \in Range(len) |-> 2 - ((i \div 2) % 2)]

\* a trial at the kernel call in static mode, with initialized vectors
InitKernel ==
  /\ pc = "kernel"
  /\ dyn_or_stc = 0
  /\ \/ /\ n \in 0 .. KMaxN
        /\ thread_count \in 1 .. MaxThreads
        /\ x \in [Range(n) -> KVals]
        /\ y \in [Range(n) -> KVals]
        /\ a \in KScalars
     \/ /\ n \in LongLengths
        /\ thread_count \in LongTeams
        /\ x = LongX(n)
        /\ y = LongY(n)
        /\ a = 2
  /\ xp = "live"
  /\ yp = "live"
  /\ begin = CpuOrigin
  /\ end = Undef
  /\ start = <<0, 999999999>>
  /\ finish = NoTime
  /\ time_spent = NoDouble
  /\ wall_time = NoDouble
  /\ rstate = 0
  /\ stdin_ok = TRUE
  /\ mono = <<0, 999999999>>
  /\ out = <<>>
  /\ exit_status = -1
  /\ trace = <<>>
  /\ reads = NoReads
  /\ region = "none"
  /\ rlen = 0
  /\ rthreads = 0
  /\ team = 0
  /\ wpc = AllOff
  /\ wi = Zeros
  /\ wend = Zeros
  /\ wtmp = Zeros
  /\ next_chunk = 0
  /\ wlog = <<>>
  /\ y0 = <<>>
  /\ kres = <<>>
  /\ heap = BothBlocks

\* the calls made one after the other on copies of the same y: the static
\* and the dynamic kernel with the team asked for, then both with a team of 1
KModes == <<0, 1, 0, 1>>
KRuns == Len(KModes)
KMode(k) == KModes[k]
KTeam(k, t) == IF k <= 2 THEN t ELSE 1

\* after a call has returned: its result is kept and the next kernel is
\* called on a copy of the same y
Rerun ==
  /\ pc = "clock_end"
  /\ Len(kres) < KRuns
  /\ kres' = Append(kres, [mode |-> dyn_or_stc, threads |-> thread_count,
                           result |-> y])
  /\ IF Len(kres) + 1 < KRuns
     THEN /\ y' = y0
          /\ dyn_or_stc' = KMode(Len(kres) + 2)
          /\ thread_count' = KTeam(Len(kres) + 2, kres'[1].threads)
          /\ pc' = "kernel"
     ELSE /\ pc' = "k_done"
          /\ UNCHANGED <<y, dyn_or_stc, thread_count>>
  /\ UNCHANGED <<n, a, xp, yp,
                 begin, end, start, finish, time_spent, wall_time,
                 stdin_ok, mono, out, exit_status, trace, reads,
                 teamv, x, rstate, y0, heap>>

NextKernel ==
  \/ CallKernel
  \/ JoinKernel
  \/ Rerun
  \/ \E w \in Workers : WClaim(w)
  \/ \E w \in Workers : WLoad(w)
  \/ \E w \in Workers : WStore(w)

SpecKernel == InitKernel /\ [][NextKernel]_vars

\* ---------------------------------------------------- kernel properties

KernelRegions == {"static", "dynamic"}
InTeam(w) == w \in Workers /\ w < team
\* the indices of its block or chunk a worker has still to process
Held(w) == IF wpc[w] \in {"load", "store"} THEN wi[w] .. (wend[w] - 1) ELSE {}
\* the indices a worker has stored to in this region
WrittenBy(w) == {i \in DOMAIN wlog : \E j \in 1 .. Len(wlog[i]) : wlog[i][j] = w}
\* a set of integers is one range when at most one element has no successor in it
Contiguous(S) == Cardinality({i \in S : i + 1 \notin S}) <= 1
LongestLength == 2 * CHUNK + CHUNK \div 2

\* C1: started from identical copies of x, y, a, n, the static and the
\* dynamic kernel end, on every interleaving of their workers, with the same
\* vector, and that vector is the sequential result y[i] + x[i]*a for every i.
C1_StaticDynamicSequential ==
  pc = "k_done" =>
    /\ kres[1].mode = 0 /\ kres[2].mode # 0
    /\ kres[1].threads = kres[2].threads
    /\ kres[1].result = kres[2].result
    /\ kres[1].result = SeqDaxpy(x, y0, a)
    /\ DOMAIN kres[1].result = Range(n)

C1_Witness ==
  /\ pc = "k_done"
  /\ n = LongestLength
  /\ kres[1].threads = 2
  /\ kres[2].result = SeqDaxpy(x, y0, a)
  /\ kres[2].result # y0

\* C2: the final y of a kernel call does not depend on the thread count: for
\* either variant, the call with a team of 1 and the call with the team asked
\* for end with the same y.
C2_TeamSizeIndependent ==
  pc = "k_done" =>
    /\ kres[3].threads = 1 /\ kres[4].threads = 1
    /\ kres[3].mode = kres[1].mode /\ kres[4].mode = kres[2].mode
    /\ kres[3].result = kres[1].result
    /\ kres[4].result = kres[2].result

C2_Witness ==
  /\ pc = "k_done"
  /\ kres[1].threads = MaxThreads
  /\ kres[3].threads = 1
  /\ n = KMaxN
  /\ kres[3].result = kres[1].result
  /\ kres[1].result # y0

\* C3: in one kernel call no element of y is written by two workers: the
\* blocks (static) and chunks (dynamic) the workers hold are disjoint and
\* hold only indices nobody has written, a static worker's indices are one
\* contiguous range, and when all workers are done every index of [0, n)
\* has been written exactly once.
C3_DisjointExactlyOnce ==
  region \in KernelRegions =>
    /\ \A i \in DOMAIN wlog : Len(wlog[i]) <= 1
    /\ \A v \in Workers : \A w \in Workers :
         v # w => Held(v) \cap Held(w) = {}
    /\ \A w \in Workers : \A i \in Held(w) :
         i \in Range(rlen) /\ wlog[i] = <<>>
    /\ region = "static" =>
         \A w \in Workers : Contiguous(WrittenBy(w) \cup Held(w))
    /\ region = "dynamic" =>
         \A w \in Workers : Contiguous(Held(w)) /\ Cardinality(Held(w)) <= CHUNK
    /\ AllDone => \A i \in Range(rlen) : Len(wlog[i]) = 1

C3_Witness ==
  /\ region = "dynamic"
  /\ AllDone
  /\ rlen = LongestLength
  /\ WrittenBy(0) # {}
  /\ WrittenBy(1) # {}
  /\ \A i \in Range(rlen) : Len(wlog[i]) = 1

\* C4: a kernel call changes only elements of y: from the call to its
\* return, in every step, x, the scalar a and the lengths of x and y stay
\* as they are.
C4_OnlyYChanges ==
  [][(pc \in {"kernel", "join_kernel"}) =>
       (x' = x /\ a' = a /\ n' = n /\ DOMAIN y' = DOMAIN y)]_vars

C4_Witness ==
  /\ pc = "join_kernel"
  /\ region \in KernelRegions
  /\ ~AllDone
  /\ y # y0
  /\ x = LongX(LongestLength)

\* C5: for n = 0 no worker of either kernel enters the loop body or writes,
\* y stays as it was, and the call is never stuck before all its workers
\* are done, for every team.
C5_EmptyVector ==
  (n = 0 /\ pc = "join_kernel") =>
    /\ region \in KernelRegions
    /\ y = y0
    /\ y = <<>>
    /\ \A w \in Workers : wpc[w] \in {"off", "claim", "done"}
    /\ \A w \in Workers : InTeam(w) => wpc[w] # "off"
    /\ AllDone \/ \E w \in Workers : InTeam(w) /\ wpc[w] = "claim"

C5_Witness ==
  /\ n = 0
  /\ pc = "k_done"
  /\ kres[1].threads = MaxThreads
  /\ kres[1].result = <<>>
  /\ kres[2].result = <<>>

\* ------------------------------------------------ the timer on its own

\* a trial after the second clock sample, the monotonic clock having shown
\* finish not earlier than start
InitTimer ==
  /\ pc = "compute"
  /\ start \in TimerTimes
  /\ finish \in TimerTimes
  /\ TimeLeq(start, finish)
  /\ mono = finish
  /\ dyn_or_stc \in {0, 1}
  /\ thread_count = 1
  /\ n \in {0, 1}
  /\ a = 1
  /\ x = [i \in Range(n) |-> 1]
  /\ y = [i \in Range(n) |-> 2]
  /\ y0 = [i \in Range(n) |-> 1]
  /\ xp = "live"
  /\ yp = "live"
  /\ begin = CpuOrigin
  /\ end \in CpuTimes
  /\ time_spent = NoDouble
  /\ wall_time = NoDouble
  /\ rstate = 0
  /\ stdin_ok = TRUE
  /\ out = <<>>
  /\ exit_status = -1
  /\ trace = <<>>
  /\ reads = NoReads
  /\ region = "none"
  /\ rlen = n
  /\ rthreads = 1
  /\ team = 0
  /\ wpc = AllOff
  /\ wi = Zeros
  /\ wend = Zeros
  /\ wtmp = Zeros
  /\ next_chunk = 0
  /\ wlog = <<>>
  /\ kres = <<>>
  /\ heap = BothBlocks

NextTimer ==
  \/ ComputeTimes
  \/ PrintDaxpy

SpecTimer == InitTimer /\ [][NextTimer]_vars

\* ------------------------------------------------- session properties

IsPrefix(s, t) == Len(s) <= Len(t) /\ SubSeq(t, 1, Len(s)) = s
KernelEvent == IF dyn_or_stc = 0 THEN "kernel_static" ELSE "kernel_dynamic"
ReadEvents == <<"read_mode", "read_threads", "read_n">>
\* the steps of a trial in the order of the source
CodeOrder ==
  ReadEvents \o
  <<"scalar", "malloc_x", "malloc_y", "init_x", "init_x_done",
    "init_y", "init_y_done", "clock_begin", "gettime_start",
    KernelEvent, "kernel_done", "clock_end", "gettime_finish",
    "report", "free_x", "free_y">>
\* the steps of a trial in the order the specification gives
SpecOrder ==
  ReadEvents \o
  <<"malloc_x", "malloc_y", "init_x", "init_x_done",
    "init_y", "init_y_done", "scalar", "clock_begin", "gettime_start",
    KernelEvent, "kernel_done", "clock_end", "gettime_finish",
    "report", "free_x", "free_y">>
KernelCalls ==
  Cardinality({k \in 1 .. Len(trace) :
                 trace[k] \in {"kernel_static", "kernel_dynamic"}})

\* C6: when the vector-length read yields -1 the session ends in that
\* iteration whatever mode and thread count were read: nothing but the three
\* reads happens in it (no scalar, allocation, initialization, clock sample,
\* kernel or report), the farewell is printed and the exit status is 0.
C6_SentinelEndsSession ==
  n = SENTINEL =>
    /\ pc \in {"test_n", "while", "goodbye", "return", "exit"}
    /\ reads.len = <<SENTINEL>>
    /\ trace = ReadEvents
    /\ region = "none" /\ team = 0
    /\ xp = "none" /\ yp = "none" /\ a = Undef
    /\ begin = Undef /\ end = Undef
    /\ time_spent = NoDouble /\ wall_time = NoDouble
    /\ pc \in {"test_n", "while", "goodbye"} =>
         out = <<"prompt_mode", "prompt_threads", "prompt_n">>
    /\ pc \in {"return", "exit"} =>
         out = <<"prompt_mode", "prompt_threads", "prompt_n", "goodbye">>
    /\ pc = "exit" => exit_status = 0
    /\ pc # "exit" => exit_status = -1 /\ ENABLED Next

C6_Witness ==
  /\ pc = "exit"
  /\ n = SENTINEL
  /\ reads.mode = <<2>>
  /\ reads.threads = <<0>>
  /\ exit_status = 0
  /\ out[Len(out)] = "goodbye"

\* C7 as stated: the steps of a trial follow the order allocate x and y,
\* initialize x and y, draw the scalar, start the timer, kernel, stop the
\* timer, report, release.
C7_SpecifiedOrder == IsPrefix(trace, SpecOrder)

\* C7, amended: the steps of a trial follow the order draw the scalar,
\* allocate x and y, initialize x, initialize y, start the timer, run the
\* selected kernel, stop the timer, report, release x and y; a trial that is
\* back at the loop condition has performed every one of them, once.
C7_SourceOrder ==
  /\ IsPrefix(trace, CodeOrder)
  /\ (pc = "while" /\ n # SENTINEL /\ trace # <<>>) => trace = CodeOrder

C7_Witness ==
  /\ pc = "while"
  /\ trace = CodeOrder
  /\ n = MaxN
  /\ thread_count = MaxThreads

\* C8 as stated: wherever a vector is being allocated or a parallel
\* region runs, vectorLength >= 0 and threadCount >= 1.
C8_ParametersValidated ==
  (pc \in {"malloc_x", "malloc_y"} \/ region # "none") =>
    (n >= 0 /\ thread_count >= 1)

\* C9: each trial calls exactly one kernel variant, once, with the thread
\* count and the length read for the trial: the static kernel exactly when
\* the mode read is 0, the dynamic kernel for every other mode.
C9_KernelSelection ==
  /\ region \in KernelRegions =>
       /\ region = "static" <=> dyn_or_stc = 0
       /\ rlen = n
       /\ rthreads = thread_count
       /\ reads.mode # <<>> => (region = "static" <=> reads.mode[1] = 0)
       /\ reads.threads # <<>> => rthreads = reads.threads[1]
       /\ reads.len # <<>> => rlen = reads.len[1]
       /\ thread_count >= 1 => team = thread_count
       /\ KernelCalls = 1
  /\ KernelCalls <= 1
  /\ pc \in {"join_kernel", "clock_end", "gettime_finish", "compute",
             "print", "free_x", "free_y"} => KernelCalls = 1
  /\ \A k \in 1 .. Len(trace) :
       /\ trace[k] = "kernel_static" => dyn_or_stc = 0
       /\ trace[k] = "kernel_dynamic" => dyn_or_stc # 0

C9_Witness ==
  /\ region = "dynamic"
  /\ reads.mode = <<2>>
  /\ reads.threads = <<MaxThreads>>
  /\ reads.len = <<MaxN>>
  /\ team = MaxThreads
  /\ KernelCalls = 1

\* C10: the reported wall time, finish converted to milliseconds minus
\* start converted to milliseconds, is never negative when the second sample
\* of the monotonic clock is not earlier than the first.
C10_WallTimeNonNegative ==
  pc \in {"print", "free_x"} =>
    /\ TimeLeq(start, finish)
    /\ DNonNeg(wall_time)
    /\ wall_time[2] \in 0 .. (NS_PER_MS - 1)

C10_Witness ==
  /\ pc = "print"
  /\ start = <<0, 999999999>>
  /\ finish = <<1, 0>>
  /\ wall_time = <<0, 1>>

\* ------------------------------------------------- states of the trial loop

\* main() between trials (the loop condition, the three prompts and reads,
\* the test of n), after the loop, and inside the if-block
AwaitingPcs == {"while", "scanf_mode", "scanf_threads", "scanf_n", "test_n"}
TerminatedPcs == {"goodbye", "return", "exit"}
RunningPcs ==
  {"scalar", "malloc_x", "malloc_y", "init_x", "join_x", "init_y", "join_y",
   "clock_begin", "gettime_start", "kernel", "join_kernel", "clock_end",
   "gettime_finish", "compute", "print", "free_x", "free_y"}
Count(e) == Cardinality({k \in 1 .. Len(trace) : trace[k] = e})
Position(e) == CHOOSE k \in 1 .. Len(trace) : trace[k] = e

\* C11: x and y belong to one trial: both are allocated with the same
\* length, each is released once, after the report, nothing accesses a vector
\* that is not live, between trials and after the loop no block is
\* allocated, and never more than one block of each malloc call exists.
C11_VectorOwnership ==
  /\ \A b \in Blocks : heap[b] \in {0, 1}
  /\ heap["x"] = 1 <=> xp = "live"
  /\ heap["y"] = 1 <=> yp = "live"
  /\ pc \in AwaitingPcs \cup TerminatedPcs \cup {"srand", "scalar", "malloc_x"} =>
       heap = NoBlocks /\ xp = "none" /\ yp = "none" /\ x = <<>> /\ y = <<>>
  /\ (xp = "live" /\ yp = "live") =>
       DOMAIN x = Range(n) /\ DOMAIN y = Range(n) /\ n >= 0
  /\ xp = "freed" =>
       pc = "free_y" /\ region = "none" /\ Count("report") = 1
  /\ Count("free_x") <= 1 /\ Count("free_y") <= 1
  /\ (pc = "while" /\ n # SENTINEL /\ trace # <<>>) =>
       /\ Count("malloc_x") = 1 /\ Count("malloc_y") = 1
       /\ Count("free_x") = 1 /\ Count("free_y") = 1
       /\ Position("report") < Position("free_x")
       /\ Position("free_x") < Position("free_y")
  /\ \A w \in Workers :
       /\ wpc[w] \in {"load", "store"} =>
            xp = "live" /\ yp = "live" /\ wi[w] \in Range(n)
       /\ (wpc[w] \in {"rand_read", "rand_write"} /\ region = "init_x") =>
            xp = "live" /\ wi[w] \in DOMAIN x
       /\ (wpc[w] \in {"rand_read", "rand_write"} /\ region = "init_y") =>
            yp = "live" /\ wi[w] \in DOMAIN y
  /\ region # "none" => xp \in {"live", "null"} /\ yp \in {"live", "null"}

C11_Witness ==
  /\ pc = "while"
  /\ trace # <<>>
  /\ trace[Len(trace)] = "free_y"
  /\ reads.len = <<MaxN>>
  /\ reads.mode = <<1>>
  /\ heap = NoBlocks
  /\ xp = "none" /\ yp = "none"

\* ------------------------------------------------------ dynamic chunking
\* one kernel call on its own: short vectors in either mode with every
\* team, and in dynamic mode vectors of one chunk, one chunk and one index,
\* and two and a half chunks with a team of two
ScheduleLengths == {CHUNK, CHUNK + 1, 2 * CHUNK + CHUNK \div 2}
InitSchedule ==
  /\ pc = "kernel"
  /\ \/ /\ dyn_or_stc \in {0, 1}
        /\ n \in 0 .. KMaxN
        /\ thread_count \in 1 .. MaxThreads
     \/ /\ dyn_or_stc = 1
        /\ n \in ScheduleLengths
        /\ thread_count \in LongTeams
  /\ x = LongX(n)
  /\ y = LongY(n)
  /\ a = 2
  /\ xp = "live"
  /\ yp = "live"
  /\ begin = CpuOrigin
  /\ end = Undef
  /\ start = <<0, 999999999>>
  /\ finish = NoTime
  /\ time_spent = NoDouble
  /\ wall_time = NoDouble
  /\ rstate = 0
  /\ stdin_ok = TRUE
  /\ mono = <<0, 999999999>>
  /\ out = <<>>
  /\ exit_status = -1
  /\ trace = <<>>
  /\ reads = NoReads
  /\ region = "none"
  /\ rlen = 0
  /\ rthreads = 0
  /\ team = 0
  /\ wpc = AllOff
  /\ wi = Zeros
  /\ wend = Zeros
  /\ wtmp = Zeros
  /\ next_chunk = 0
  /\ wlog = <<>>
  /\ y0 = <<>>
  /\ kres = <<>>
  /\ heap = BothBlocks

NextSchedule ==
  \/ CallKernel
  \/ JoinKernel
  \/ \E w \in Workers : WClaim(w)
  \/ \E w \in Workers : WLoad(w)
  \/ \E w \in Workers : WStore(w)

SpecSchedule == InitSchedule /\ [][NextSchedule]_vars

\* the number of chunks of len iterations, ceil(len / 100), and the
\* indices of chunk c
NumChunks(len) == IF len > 0 THEN (len + CHUNK - 1) \div CHUNK ELSE 0
ChunkOf(c) == (c * CHUNK) .. (Min((c + 1) * CHUNK, rlen) - 1)
Unwritten(c) == {i \in ChunkOf(c) : wlog[i] = <<>>}
\* the workers that have stored into chunk c (a chunk is processed from
\* its first index on) or hold a part of it
Claimants(c) ==
  {w \in Workers : \/ wpc[w] \in {"load", "store"} /\ wi[w] \div CHUNK = c
                   \/ wlog[c * CHUNK] = <<w>>}
ChunksOf(w) == {c \in 0 .. (NumChunks(rlen) - 1) : w \in Claimants(c)}

\* C12: under schedule(dynamic, 100) the range [0, n) is cut into
\* ceil(n/100) chunks of 100 consecutive indices (the last may be shorter);
\* a claimed chunk has exactly one worker, an unclaimed chunk none; a worker
\* holds the unwritten rest of at most one chunk, so it takes its next chunk
\* only after finishing the current one; the region is over only when every
\* chunk is claimed and written.  For n = 250 and 2 workers the chunks are
\* [0,100), [100,200), [200,250) and one worker processes two of them.
C12_DynamicChunks ==
  region = "dynamic" =>
    /\ next_chunk % CHUNK = 0
    /\ next_chunk \in 0 .. (NumChunks(rlen) * CHUNK)
    /\ \A i \in Range(rlen) :
         wlog[i] # <<>> => wlog[i] = wlog[(i \div CHUNK) * CHUNK]
    /\ \A c \in 0 .. (NumChunks(rlen) - 1) :
         /\ c * CHUNK < next_chunk => Cardinality(Claimants(c)) = 1
         /\ c * CHUNK >= next_chunk => Claimants(c) = {} /\ wlog[c * CHUNK] = <<>>
         /\ Unwritten(c) # {} /\ c * CHUNK < next_chunk =>
              \E w \in Workers : InTeam(w) /\ Held(w) = Unwritten(c)
    /\ \A w \in Workers :
         /\ wpc[w] \in {"claim", "done"} =>
              \A c \in ChunksOf(w) : Unwritten(c) = {}
         /\ wpc[w] \in {"load", "store"} =>
              /\ wi[w] < wend[w]
              /\ wi[w] \div CHUNK = (wend[w] - 1) \div CHUNK
              /\ wend[w] = Min(((wi[w] \div CHUNK) + 1) * CHUNK, rlen)
    /\ AllDone =>
         /\ next_chunk >= rlen
         /\ \A i \in Range(rlen) : Len(wlog[i]) = 1
    /\ (AllDone /\ rlen = LongestLength /\ team = 2) =>
         /\ NumChunks(rlen) = 3
         /\ ChunkOf(2) = (2 * CHUNK) .. (LongestLength - 1)
         /\ \E w \in Workers : Cardinality(ChunksOf(w)) >= 2

C12_Witness ==
  /\ region = "dynamic"
  /\ AllDone
  /\ rlen = LongestLength
  /\ team = 2
  /\ ChunksOf(0) = {1}
  /\ ChunksOf(1) = {0, 2}

\* -------------------------------------------------------- static blocks

\* the lengths and teams over which the block arithmetic is checked by itself
MaxBlockLen == 12
MaxBlockTeam == 5
\* the indices worker w has processed or has still to process
Block(w) == WrittenBy(w) \cup Held(w)
\* the block of worker w in closed form: len / k indices, one more for the
\* first len % k workers, the blocks laid one after the other
BlockSize(len, k, w) == (len \div k) + (IF w < len % k THEN 1 ELSE 0)
BlockStart(len, k, w) == w * (len \div k) + Min(w, len % k)
StaticBlock(len, k, w) == StaticLo(len, k, w) .. (StaticHi(len, k, w) - 1)
\* the blocks of a team of k over len iterations are ranges that split
\* [0, len) and whose sizes differ by at most 1
SplitsEvenly(len, k) ==
  /\ \A w \in 0 .. (k - 1) :
       /\ StaticBlock(len, k, w) =
            BlockStart(len, k, w) .. (BlockStart(len, k, w) + BlockSize(len, k, w) - 1)
       /\ StaticBlock(len, k, w) \subseteq Range(len)
  /\ \A v \in 0 .. (k - 1) : \A w \in 0 .. (k - 1) :
       /\ v # w => StaticBlock(len, k, v) \cap StaticBlock(len, k, w) = {}
       /\ Cardinality(StaticBlock(len, k, v))
            <= Cardinality(StaticBlock(len, k, w)) + 1
  /\ \A i \in Range(len) : \E w \in 0 .. (k - 1) : i \in StaticBlock(len, k, w)
  /\ len < k => \E w \in 0 .. (k - 1) : StaticBlock(len, k, w) = {}

C13_Blocks ==
  /\ pc = "kernel" =>
       \A len \in 0 .. MaxBlockLen : \A k \in 1 .. MaxBlockTeam : SplitsEvenly(len, k)
  /\ region = "static" =>
       /\ team = rthreads
       /\ \A w \in Workers :
            /\ InTeam(w) =>
                 Block(w) = BlockStart(rlen, team, w) ..
                              (BlockStart(rlen, team, w) + BlockSize(rlen, team, w) - 1)
            /\ ~InTeam(w) => Block(w) = {} /\ wpc[w] = "off"
            /\ Contiguous(Block(w))
            /\ wpc[w] # "claim"
            /\ (InTeam(w) /\ BlockSize(rlen, team, w) = 0) => wpc[w] = "done"
       /\ \A v \in Workers : \A w \in Workers :
            /\ v # w => Block(v) \cap Block(w) = {}
            /\ (InTeam(v) /\ InTeam(w)) =>
                 Cardinality(Block(v)) <= Cardinality(Block(w)) + 1
       /\ \A i \in Range(rlen) : \E w \in Workers : InTeam(w) /\ i \in Block(w)

C13_Step ==
  (region = "static" /\ region' = "static") =>
    /\ rlen' = rlen /\ team' = team /\ wend' = wend
    /\ \A w \in Workers : Block(w)' = Block(w)

\* C13: under schedule(static) the assignment of indices to workers is fixed
\* at loop entry and no step of the region changes it: [0, n) is split into
\* threadCount contiguous blocks whose sizes differ by at most 1 (empty for
\* some workers when n < threadCount), each worker processes exactly its one
\* block, and the block of a worker is a function of n, the team size and
\* the worker's number only, whatever the order in which the workers run.
C13_StaticBlocksFixed == []C13_Blocks /\ [][C13_Step]_vars

C13_Witness ==
  /\ region = "static"
  /\ AllDone
  /\ rlen = KMaxN
  /\ team = MaxThreads
  /\ Cardinality(WrittenBy(0)) = Cardinality(WrittenBy(MaxThreads - 1)) + 1
  /\ \A w \in Workers : WrittenBy(w) # {}

\* ------------------------------------------------------------- the timer

\* the steps from the first start sample to the last end sample
TimedSteps ==
  <<"clock_begin", "gettime_start", KernelEvent, "kernel_done",
    "clock_end", "gettime_finish">>
AfterTimer == <<"report", "free_x", "free_y">>
Initialized(v) == \A i \in DOMAIN v : v[i] # Undef

\* C14: the timer brackets exactly the kernel's region: both start samples
\* are taken after both initialize_array calls have returned and before any
\* kernel worker exists or has written to y; both end samples are taken
\* after every kernel worker has made its last write and the region is
\* joined; between the first start sample and the last end sample nothing
\* happens but the kernel call.
C14_TimerBrackets ==
  /\ region \in {"init_x", "init_y"} =>
       Count("clock_begin") = 0 /\ Count("gettime_start") = 0
  /\ pc \in {"clock_begin", "gettime_start", "kernel"} =>
       /\ Count("init_x_done") = 1 /\ Count("init_y_done") = 1
       /\ region = "none" /\ team = 0
       /\ Initialized(x) /\ Initialized(y)
       /\ y0 = <<>>
       /\ Count(KernelEvent) = 0
  /\ region \in KernelRegions =>
       /\ pc = "join_kernel"
       /\ Count("clock_begin") = 1 /\ Count("gettime_start") = 1
       /\ begin # Undef /\ start = mono
       /\ Count("clock_end") = 0 /\ Count("gettime_finish") = 0
       /\ end = Undef
  /\ pc \in {"clock_end", "gettime_finish", "compute"} =>
       /\ Count("kernel_done") = 1
       /\ region = "none" /\ team = 0
       /\ \A w \in Workers : wpc[w] = "off"
       /\ y = SeqDaxpy(x, y0, a)
  /\ pc = "compute" => end # Undef /\ finish = mono /\ TimeLeq(start, finish)
  /\ Count("clock_begin") = 1 =>
       IsPrefix(SubSeq(trace, Position("clock_begin"), Len(trace)),
                TimedSteps \o AfterTimer)
  /\ Count("clock_begin") = 0 =>
       \A k \in 1 .. Len(TimedSteps) : Count(TimedSteps[k]) = 0

C14_Witness ==
  /\ pc = "compute"
  /\ reads.len = <<MaxN>>
  /\ reads.threads = <<MaxThreads>>
  /\ y # y0
  /\ SubSeq(trace, Len(trace) - Len(TimedSteps) + 1, Len(trace)) = TimedSteps
  /\ start # finish

\* ------------------------------------------------------ the trial loop

\* the state of the trial loop main() is in; a trial the runtime has given
\* up on (pc = "aborted") stays in flight: it never gets back to the prompts
Phase ==
  IF pc \in AwaitingPcs \cup {"srand"} THEN "AwaitingParameters"
  ELSE IF pc \in TerminatedPcs THEN "Terminated"
  ELSE "Running"
Farewells == Cardinality({k \in 1 .. Len(out) : out[k] = "goodbye"})

C15_Phases ==
  /\ Phase # "Running" =>
       /\ region = "none" /\ team = 0
       /\ \A w \in Workers : wpc[w] = "off"
       /\ heap = NoBlocks
       /\ a = Undef
  /\ Phase = "Running" =>
       /\ n # SENTINEL
       /\ Count("scalar") <= 1
       /\ Count("read_n") = 1
  /\ Phase = "Terminated" => n = SENTINEL /\ reads.len = <<SENTINEL>>
  /\ Farewells <= 1
  /\ Phase # "Terminated" => Farewells = 0
  /\ pc \in {"return", "exit"} => Farewells = 1 /\ out[Len(out)] = "goodbye"

C15_Step ==
  /\ Phase' # Phase =>
       \/ /\ Phase = "AwaitingParameters" /\ Phase' = "Running"
          /\ pc = "test_n" /\ n # SENTINEL
       \/ /\ Phase = "Running" /\ Phase' = "AwaitingParameters"
          /\ pc = "free_y" /\ pc' = "while" /\ trace' = CodeOrder
       \/ /\ Phase = "AwaitingParameters" /\ Phase' = "Terminated"
          /\ pc = "while" /\ n = SENTINEL
  /\ (pc = "test_n" /\ n # SENTINEL) => Phase' = "Running"
  /\ (pc = "while" /\ n = SENTINEL) => Phase' = "Terminated"
  /\ Phase = "Terminated" =>
       /\ Phase' = "Terminated"
       /\ trace' = trace /\ reads' = reads /\ region' = region
       /\ x' = x /\ y' = y /\ heap' = heap
       /\ out' = out \/ (pc = "goodbye" /\ out' = Append(out, "goodbye"))

\* C15: the trial loop has three states and three transitions,
\* AwaitingParameters -> Running when the length is not -1, Running ->
\* AwaitingParameters when the trial has finished, AwaitingParameters ->
\* Terminated when the length is -1; outside Running nothing of a trial
\* exists, so at most one trial is in flight; Terminated is entered exactly
\* when the length read is -1, it is never left, nothing but the farewell is
\* printed in it, and the farewell is printed once.
C15_ThreeStateMachine == []C15_Phases /\ [][C15_Step]_vars

C15_Witness ==
  /\ pc = "exit"
  /\ Farewells = 1
  /\ reads.len = <<SENTINEL>>
  /\ start # NoTime
  /\ finish # NoTime
  /\ exit_status = 0

\* ------------------------------------------------------ initialize_array

InitRegions == {"init_x", "init_y"}
\* the buffer the open initialize_array call fills
Arr == IF region = "init_x" THEN x ELSE y
\* the indices a worker of initialize_array has still to fill
HeldInit(w) ==
  IF wpc[w] \in {"rand_read", "rand_write"} THEN wi[w] .. (wend[w] - 1) ELSE {}
\* C16: initialize_array writes every index of its buffer exactly once, for
\* every team and every interleaving of its workers, also when two workers
\* are inside rand() at the same time; it returns only after all its workers
\* are done, and the buffer is then fully populated.
C16_FullyPopulated ==
  /\ region \in InitRegions =>
       /\ pc = (IF region = "init_x" THEN "join_x" ELSE "join_y")
       /\ rlen = n /\ DOMAIN Arr = Range(n)
       /\ thread_count >= 1 => team = thread_count
       /\ team >= 1
       /\ \A i \in Range(n) :
            /\ Len(wlog[i]) <= 1
            /\ wlog[i] = <<>> <=> Arr[i] = Undef
            /\ Arr[i] \in RandValues \cup {Undef}
            /\ wlog[i] = <<>> <=> \E w \in Workers : InTeam(w) /\ i \in HeldInit(w)
       /\ \A v \in Workers : \A w \in Workers :
            v # w => HeldInit(v) \cap HeldInit(w) = {}
       /\ region = "init_x" => y = FreshVector(n)
       /\ region = "init_y" => Initialized(x)
       /\ AllDone => \A i \in Range(n) : Len(wlog[i]) = 1 /\ Arr[i] \in RandValues
  /\ pc \in {"init_y", "join_y"} =>
       /\ Count("init_x_done") = 1
       /\ DOMAIN x = Range(n)
       /\ \A i \in Range(n) : x[i] \in RandValues
  /\ pc = "init_y" => region = "none" /\ \A w \in Workers : wpc[w] = "off"
  /\ pc = "clock_begin" =>
       /\ Count("init_y_done") = 1
       /\ region = "none" /\ \A w \in Workers : wpc[w] = "off"
       /\ DOMAIN y = Range(n)
       /\ \A i \in Range(n) : y[i] \in RandValues /\ x[i] \in RandValues

\* a call has returned with a fully populated buffer although its two
\* workers drew the same value from the generator at the same time
C16_Witness ==
  /\ pc = "init_y"
  /\ n = MaxN
  /\ thread_count = MaxThreads
  /\ DOMAIN x = Range(MaxN)
  /\ \A i \in Range(MaxN) : x[i] = x[0] /\ x[i] \in RandValues

\* ----------------------------------------------------- the values read

\* C17 as stated: the mode, thread count and length a trial uses are the
\* values the three reads of the same iteration delivered, also when a read
\* delivers no value (then nothing left over from before may be used).
C17_ValuesReadFresh ==
  pc \in RunningPcs =>
    /\ reads.mode = <<dyn_or_stc>>
    /\ reads.threads = <<thread_count>>
    /\ reads.len = <<n>>
    /\ region # "none" => rlen = n /\ rthreads = thread_count

\* ------------------------------------------------------------ the scalar

C18_Scalar ==
  /\ Count("scalar") <= 1
  /\ pc \in RunningPcs \ {"scalar"} => Count("scalar") = 1 /\ a \in RandValues
  /\ pc \in {"scanf_mode", "scanf_threads", "scanf_n", "test_n", "scalar"} =>
       Count("scalar") = 0
  /\ pc \in AwaitingPcs \cup TerminatedPcs \cup {"scalar"} => a = Undef
  /\ n = SENTINEL => Count("scalar") = 0
  /\ (pc = "while" /\ n # SENTINEL /\ trace # <<>>) => Count("scalar") = 1
  /\ \A w \in Workers :
       wpc[w] = "store" => wtmp[w] = y[wi[w]] + x[wi[w]] * a
  /\ pc \in {"clock_end", "gettime_finish", "compute", "print", "free_x"} =>
       y = [i \in Range(n) |-> y0[i] + x[i] * a]

C18_Step ==
  /\ a' # a =>
       \/ /\ pc = "scalar" /\ a = Undef
          /\ rstate' = RandNext(rstate) /\ a' = RandValue(rstate')
       \/ pc = "free_y" /\ a' = Undef
  /\ pc = "scalar" => a' # Undef /\ Count("scalar")' = 1

\* C18: initialize_scalar is called once in every trial and not at all in the
\* iteration that reads the sentinel; from the draw to the end of the trial
\* no step changes a, and every kernel worker computes with that value.
C18_ScalarOnceImmutable == []C18_Scalar /\ [][C18_Step]_vars

C18_Witness ==
  /\ pc = "join_kernel"
  /\ Count("scalar") = 1
  /\ a = 1
  /\ team = MaxThreads
  /\ \A w \in Workers : wpc[w] = "store"
  /\ \E w \in Workers : wtmp[w] # y[wi[w]]

\* ---------------------------------------------------------- termination

\* the steps of the driving thread and the steps of one worker
DriverNext ==
  \/ Srand \/ WhileTest \/ ScanfMode \/ ScanfThreads \/ ScanfN \/ TestN
  \/ InitializeScalar \/ MallocX \/ MallocY
  \/ CallInitX \/ JoinInitX \/ CallInitY \/ JoinInitY
  \/ ClockBegin \/ GettimeStart \/ CallKernel \/ JoinKernel
  \/ ClockEnd \/ GettimeFinish \/ ComputeTimes \/ PrintDaxpy
  \/ FreeX \/ FreeY \/ Goodbye \/ Return
WorkerNext(w) ==
  WClaim(w) \/ WLoad(w) \/ WStore(w) \/ WRandRead(w) \/ WRandWrite(w)

\* the program with a scheduler that is weakly fair to the driving thread
\* and to every worker
SpecFair ==
  /\ Init
  /\ [][Next]_vars
  /\ WF_vars(DriverNext)
  /\ \A w \in Workers : WF_vars(WorkerNext(w))

\* C19 as stated: under weak fairness every parallel region that starts
\* is eventually joined, and every trial that enters Running eventually
\* reports, releases x and y and is back at the prompts.
C19_TrialsComplete ==
  /\ (region # "none") ~> (region = "none")
  /\ (Phase = "Running") ~> (pc = "while" /\ heap = NoBlocks)

\* ---------------------------------------------------- regions in sequence

\* C20: the parallel regions of a trial do not overlap and the kernel reads
\* no unwritten element: workers exist only inside the one open region and
\* run its body; the region that fills y opens after the one that fills x
\* has been joined with x complete, a kernel region opens after both; every
\* x[i] and y[i] a kernel worker is about to read was written by
\* initialize_array, and y[i] not yet by the kernel.
C20_RegionsInSequence ==
  /\ region = "none" => team = 0 /\ \A w \in Workers : wpc[w] = "off"
  /\ region # "none" =>
       /\ team >= 1
       /\ \A w \in Workers : (wpc[w] # "off") <=> InTeam(w)
       /\ Count("init_x") = 1
  /\ \A w \in Workers :
       /\ wpc[w] \in {"rand_read", "rand_write"} => region \in InitRegions
       /\ wpc[w] \in {"load", "store", "claim"} => region \in KernelRegions
       /\ wpc[w] = "claim" => region = "dynamic"
  /\ region = "init_x" => Count("init_x_done") = 0 /\ Count("init_y") = 0
  /\ region = "init_y" =>
       /\ Count("init_x_done") = 1 /\ Count("init_y_done") = 0
       /\ Position("init_x_done") < Position("init_y")
       /\ Initialized(x) /\ DOMAIN x = Range(n)
  /\ region \in KernelRegions =>
       /\ Count("init_x_done") = 1 /\ Count("init_y_done") = 1
       /\ Position("init_y_done") < Position(KernelEvent)
       /\ Initialized(x) /\ Initialized(y0)
       /\ DOMAIN x = Range(n) /\ DOMAIN y0 = Range(n)
  /\ \A w \in Workers :
       wpc[w] = "load" =>
         /\ wi[w] \in Range(n)
         /\ x[wi[w]] \in RandValues
         /\ y[wi[w]] \in RandValues
         /\ y[wi[w]] = y0[wi[w]]
         /\ wlog[wi[w]] = <<>>

C20_Witness ==
  /\ region = "static"
  /\ n = MaxN
  /\ team = MaxThreads
  /\ \A w \in Workers : wpc[w] = "load" /\ y[wi[w]] \in RandValues
  /\ Count("init_x_done") = 1
  /\ Count("init_y_done") = 1

====
